---- MODULE Spec2Model ----
(***************************************************************************)
(* Model of the Microsoft ADCS Terraform provider.                         *)
(*                                                                         *)
(*   internal/provider/provider.go  MicrosoftADCSProvider.Configure        *)
(*   certificate data source        certificateDataSource.{Configure,Read} *)
(*   certificate resource           certificateResource.{Configure,Create, *)
(*                                  Read,Update,Delete,ImportState}        *)
(*                                                                         *)
(* Four specifications share the variables:                                *)
(*   SpecProvider  the provider configuration pass and the Configure       *)
(*                 callbacks that receive the client handle;               *)
(*   Spec          the resource / data source lifecycle against the remote *)
(*                 ADCS server, starting from a configured provider;       *)
(*   SpecRefresh   the resource Read and the data source Read of one       *)
(*                 certificate, over every short text the server can hold; *)
(*   SpecConcurrent  operations on two resource instances interleaved step *)
(*                 by step, all holding the one client handle.             *)
(***************************************************************************)
EXTENDS Naturals, Sequences, FiniteSets

VARIABLES
    provReq,        \* the ConfigureRequest the provider received (<<>> before)
    provResp,       \* the provider's ConfigureResponse
    newClientCalls, \* the ClientConfigs client.NewClient was called with
    rClient,        \* certificateResource.client, per resource instance
    dClient,        \* certificateDataSource.client
    remote,         \* the ADCS server: the certificates it has issued, by id
    resState,       \* Terraform state of each resource instance
    dsState,        \* Terraform state of the data source
    lastOp,         \* what the last operation did (request, diagnostics, calls)
    deleted,        \* history: the ids of the resources Delete has discarded
    inflight        \* the operation running on each resource instance, if any

provVars == <<provReq, provResp, newClientCalls, rClient, dClient>>

lifeVars == <<remote, resState, dsState, lastOp, deleted, inflight>>

vars == <<provReq, provResp, newClientCalls, rClient, dClient,
          remote, resState, dsState, lastOp, deleted, inflight>>

----------------------------------------------------------------------------
(* Framework values: types.String is null, unknown or a known string.      *)

StringNull == [k |-> "null", v |-> ""]

StringUnknown == [k |-> "unknown", v |-> ""]

StringValue(s) == [k |-> "known", v |-> s]

IsNull(x) == x.k = "null"

IsUnknown(x) == x.k = "unknown"

\* ValueString returns "" for a null or unknown value.
ValueString(x) == IF x.k = "known" THEN x.v ELSE ""

BoolNull == [k |-> "null", v |-> FALSE]

BoolUnknown == [k |-> "unknown", v |-> FALSE]

BoolValue(b) == [k |-> "known", v |-> b]

\* ValueBool returns false for a null or unknown value.
ValueBool(x) == IF x.k = "known" THEN x.v ELSE FALSE

\* An optional pointer: <<>> is nil, <<x>> points to x.
Nil == <<>>

----------------------------------------------------------------------------
(* Diagnostics: a list of [severity, attr, summary].                       *)

ErrorDiag(attr, summary) == [severity |-> "error", attr |-> attr, summary |-> summary]

\* Diagnostics.Append skips a diagnostic the list already contains.
DiagAppend(diags, d) ==
    IF \E i \in 1..Len(diags) : diags[i] = d THEN diags ELSE Append(diags, d)

AddAttributeError(diags, attr, summary) == DiagAppend(diags, ErrorDiag(attr, summary))

AddError(diags, summary) == DiagAppend(diags, ErrorDiag("", summary))

HasError(diags) == \E i \in 1..Len(diags) : diags[i].severity = "error"

ErrorsCount(diags) == Cardinality({i \in 1..Len(diags) : diags[i].severity = "error"})

----------------------------------------------------------------------------
(* Provider configuration                                                  *)

\* The strings a configuration attribute or an environment variable holds.
ConfigStrings == {"", "a", "b"}

EnvStrings == {"", "a"}

StringVals == {StringNull, StringUnknown} \cup {StringValue(s) : s \in ConfigStrings}

BoolVals == {BoolNull, BoolUnknown, BoolValue(TRUE), BoolValue(FALSE)}

\* MicrosoftADCSProviderModel
ProviderModels ==
    [Host : StringVals, Username : StringVals, Password : StringVals,
     Krb5Conf : StringVals, Ntlm : BoolVals]

\* os.Getenv of the four ADCS_* variables ("" when unset)
Environments ==
    [ADCS_HOST : EnvStrings, ADCS_USERNAME : EnvStrings,
     ADCS_PASSWORD : EnvStrings, ADCS_KRB5CONF : EnvStrings]

\* The attribute errors for unknown host, username, password.
UnknownChecks(diags, config) ==
    LET d1 == IF IsUnknown(config.Host)
              THEN AddAttributeError(diags, "host", "Unknown Active Directory Certificate Services Host")
              ELSE diags
        d2 == IF IsUnknown(config.Username)
              THEN AddAttributeError(d1, "username", "Unknown Active Directory Certificate Services Username")
              ELSE d1
        d3 == IF IsUnknown(config.Password)
              THEN AddAttributeError(d2, "password", "Unknown Active Directory Certificate Services Password")
              ELSE d2
    IN  d3

\* host := os.Getenv(...); if !config.X.IsNull() { host = config.X.ValueString() }
EnvOverride(envValue, configValue) ==
    IF ~IsNull(configValue) THEN ValueString(configValue) ELSE envValue

\* The resolved host, username, password, krb5conf, useNtlm.
Resolve(config, env) ==
    [Host     |-> EnvOverride(env.ADCS_HOST, config.Host),
     Username |-> EnvOverride(env.ADCS_USERNAME, config.Username),
     Password |-> EnvOverride(env.ADCS_PASSWORD, config.Password),
     Krb5Conf |-> EnvOverride(env.ADCS_KRB5CONF, config.Krb5Conf),
     Ntlm     |-> ValueBool(config.Ntlm)]

\* Variant of MissingChecks: the three checks chained with else, so that only
\* the first empty field is reported.
MissingChecksFirstOnly(diags, resolved) ==
    IF resolved.Host = ""
    THEN AddAttributeError(diags, "host", "Missing Active Directory Certificate Services Host")
    ELSE IF resolved.Username = ""
    THEN AddAttributeError(diags, "username", "Missing Active Directory Certificate Services Username")
    ELSE IF resolved.Password = ""
    THEN AddAttributeError(diags, "password", "Missing Active Directory Certificate Services Password")
    ELSE diags

\* The attribute errors for empty host, username, password.
MissingChecks(diags, resolved) ==
    LET d1 == IF resolved.Host = ""
              THEN AddAttributeError(diags, "host", "Missing Active Directory Certificate Services Host")
              ELSE diags
        d2 == IF resolved.Username = ""
              THEN AddAttributeError(d1, "username", "Missing Active Directory Certificate Services Username")
              ELSE d1
        d3 == IF resolved.Password = ""
              THEN AddAttributeError(d2, "password", "Missing Active Directory Certificate Services Password")
              ELSE d2
    IN  d3

\* A ConfigureResponse: diagnostics, the two provider-data slots, and the
\* ClientConfigs NewClient was called with during the pass.
Response(diags, data, calls) ==
    [Diagnostics |-> diags, DataSourceData |-> data, ResourceData |-> data,
     newClient |-> calls]

\* Variant of Configure: no return after the missing-value checks.
ConfigureWithoutMissingReturn(config, env, decodeOk, newClientOk) ==
    LET d0 == IF decodeOk THEN <<>> ELSE AddError(<<>>, "Value Conversion Error")
        d1 == UnknownChecks(d0, config)
        resolved == Resolve(config, env)
        d2 == MissingChecks(d1, resolved)
        d3 == AddError(d2, "Unable to Create Active Directory Certificate Services API Client")
    IN  IF HasError(d0) THEN Response(d0, Nil, <<>>)
        ELSE IF HasError(d1) THEN Response(d1, Nil, <<>>)
        ELSE IF ~newClientOk THEN Response(d3, Nil, <<resolved>>)
        ELSE Response(d2, <<[config |-> resolved]>>, <<resolved>>)

\* MicrosoftADCSProvider.Configure on (config, env).  decodeOk: req.Config.Get
\* gave no error; newClientOk: client.NewClient returns no error.
Configure(config, env, decodeOk, newClientOk) ==
    LET d0 == IF decodeOk THEN <<>> ELSE AddError(<<>>, "Value Conversion Error")
        d1 == UnknownChecks(d0, config)
        resolved == Resolve(config, env)
        d2 == MissingChecks(d1, resolved)
        clientConfig == resolved
        d3 == AddError(d2, "Unable to Create Active Directory Certificate Services API Client")
    IN  IF HasError(d0) THEN Response(d0, Nil, <<>>)
        ELSE IF HasError(d1) THEN Response(d1, Nil, <<>>)
        ELSE IF HasError(d2) THEN Response(d2, Nil, <<>>)
        ELSE IF ~newClientOk THEN Response(d3, Nil, <<clientConfig>>)
        ELSE Response(d2, <<[config |-> clientConfig]>>, <<clientConfig>>)

\* The provider configuration pass: once per provider process.
ProviderConfigure ==
    /\ provReq = <<>>
    /\ \E config \in ProviderModels, env \in Environments,
          decodeOk \in BOOLEAN, newClientOk \in BOOLEAN :
          LET resp == Configure(config, env, decodeOk, newClientOk)
          IN  /\ provReq' = <<[config |-> config, env |-> env,
                              decodeOk |-> decodeOk, newClientOk |-> newClientOk]>>
              /\ provResp' = [Diagnostics |-> resp.Diagnostics,
                              DataSourceData |-> resp.DataSourceData,
                              ResourceData |-> resp.ResourceData]
              /\ newClientCalls' = newClientCalls \o resp.newClient
    /\ UNCHANGED <<rClient, dClient>>
    /\ UNCHANGED lifeVars

\* The resource instances Terraform manages.
Resources == {"r1", "r2"}

\* certificateResource.Configure: keep the provider's client, when there is one.
ResourceConfigureClient(client, providerData) ==
    IF providerData = Nil THEN client ELSE providerData

ResourceConfigure(r) ==
    /\ rClient' = [rClient EXCEPT ![r] = ResourceConfigureClient(rClient[r], provResp.ResourceData)]
    /\ UNCHANGED <<provReq, provResp, newClientCalls, dClient>>
    /\ UNCHANGED lifeVars

\* certificateDataSource.Configure
DataSourceConfigureClient(client, providerData) ==
    IF providerData = Nil THEN client ELSE providerData

DataSourceConfigure ==
    /\ dClient' = DataSourceConfigureClient(dClient, provResp.DataSourceData)
    /\ UNCHANGED <<provReq, provResp, newClientCalls, rClient>>
    /\ UNCHANGED lifeVars

NoLastOp ==
    [op |-> "none", r |-> "", id |-> 0, reqState |-> <<>>, respState |-> <<>>,
     err |-> FALSE, calls |-> <<>>, answered |-> TRUE, store |-> <<>>]

InitProvider ==
    /\ provReq = <<>>
    /\ provResp = [Diagnostics |-> <<>>, DataSourceData |-> Nil, ResourceData |-> Nil]
    /\ newClientCalls = <<>>
    /\ rClient = [r \in Resources |-> Nil]
    /\ dClient = Nil
    /\ remote = <<>>
    /\ resState = [r \in Resources |-> <<>>]
    /\ dsState = <<>>
    /\ lastOp = NoLastOp
    /\ deleted = {}
    /\ inflight = [r \in Resources |-> Nil]

NextProvider ==
    \/ ProviderConfigure
    \/ \E r \in Resources : ResourceConfigure(r)
    \/ DataSourceConfigure

SpecProvider == InitProvider /\ [][NextProvider]_vars

----------------------------------------------------------------------------
(* Strings of the lifecycle.  A certificate id is an opaque string: ids are  *)
(* modelled as numbers, 0 standing for the empty string.  A base64 text is  *)
(* a sequence of characters.  last_updated is a time stamp.                 *)

EmptyId == 0

IdNull == [k |-> "null", v |-> EmptyId]

TextNull == [k |-> "null", v |-> <<>>]

TimeNull == [k |-> "null", v |-> 0]

\* ValueString of an id / a text: the zero value unless known.
ValueId(x) == IF x.k = "known" THEN x.v ELSE EmptyId

\* Variant of StripCarriageReturn: strings.Replace with n = 1, which drops the
\* first occurrence only.
RECURSIVE StripFirstOnly(_)
StripFirstOnly(s) ==
    IF Len(s) < 2 THEN s
    ELSE IF s[1] = "\\" /\ s[2] = "r"
         THEN SubSeq(s, 3, Len(s))
         ELSE <<s[1]>> \o StripFirstOnly(Tail(s))

\* strings.Replace(s, `\r`, "", -1): every non-overlapping occurrence of the
\* two characters backslash, r is dropped, scanning from the left.
RECURSIVE StripCarriageReturn(_)
StripCarriageReturn(s) ==
    IF Len(s) < 2 THEN s
    ELSE IF s[1] = "\\" /\ s[2] = "r"
         THEN StripCarriageReturn(SubSeq(s, 3, Len(s)))
         ELSE <<s[1]>> \o StripCarriageReturn(Tail(s))

----------------------------------------------------------------------------
(* The remote ADCS server behind client.ADCSClient.  It keeps every        *)
(* certificate it issued; the i-th one has id i.                           *)

MaxCerts == 2

MaxTime == 2

\* The texts the server issues in the lifecycle specification: one without
\* the escape sequence and one with it.
IssuedTexts == {<<"M">>, <<"M", "\\", "r">>}

\* Every text of up to MaxTextLen characters over a base64 character, the
\* backslash and the letter r.
MaxTextLen == 4

Alphabet == {"M", "\\", "r"}

AllTexts == UNION {[1..n -> Alphabet] : n \in 1..MaxTextLen}

Certificate(id, stored) ==
    [ID |-> id, CertificateB64 |-> stored.CertificateB64,
     CertificateChainB64 |-> stored.CertificateChainB64]

\* RetrieveCertificates(id): the certificate issued under id, or an error
\* (no such certificate, or the call failed on the way: netOk = FALSE).
RetrieveCertificates(store, id, netOk) ==
    IF netOk /\ id \in 1..Len(store)
    THEN [err |-> FALSE, certificates |-> <<Certificate(id, store[id])>>]
    ELSE [err |-> TRUE, certificates |-> <<>>]

\* RequestCertificate(csr, template, attributes): the server signs and keeps
\* a new certificate under a fresh id, or the call fails and nothing is kept.
RequestCertificate(store, ok, cert, chain) ==
    IF ok
    THEN LET stored == [CertificateB64 |-> cert, CertificateChainB64 |-> chain]
         IN  [err |-> FALSE, store |-> Append(store, stored),
              certificates |-> <<Certificate(Len(store) + 1, stored)>>]
    ELSE [err |-> TRUE, store |-> store, certificates |-> <<>>]

----------------------------------------------------------------------------
(* Certificate resource                                                    *)

CSRs == {StringValue("csrA"), StringValue("csrB")}

Templates == {StringValue("User")}

AttributeVals == {StringNull, StringValue("san")}

\* The plan of a Create: the inputs known, every computed attribute unknown.
Plans ==
    {[ID |-> [k |-> "unknown", v |-> EmptyId], Attributes |-> a, CSR |-> c, Template |-> t,
      CertificateB64 |-> [k |-> "unknown", v |-> <<>>],
      CertificateChainB64 |-> [k |-> "unknown", v |-> <<>>],
      LastUpdated |-> [k |-> "unknown", v |-> 0]] :
        a \in AttributeVals, c \in CSRs, t \in Templates}

\* A remote call as an operation made it.
RequestCall(csr, template, attr) ==
    [fn |-> "RequestCertificate", id |-> EmptyId, csr |-> csr, template |-> template, attr |-> attr]

RetrieveCall(id) ==
    [fn |-> "RetrieveCertificates", id |-> id, csr |-> "", template |-> "", attr |-> ""]

\* What an operation did: the request, the state it was given and the state
\* it answered with (<<>> is no state), whether its diagnostics hold an error,
\* the remote calls it made, whether the server answered them all (TRUE when
\* it made none), and the server's store after it.
OpResult(op, r, id, reqState, respState, err, calls, answered, store) ==
    [op |-> op, r |-> r, id |-> id, reqState |-> reqState, respState |-> respState,
     err |-> err, calls |-> calls, answered |-> answered, store |-> store]

\* Variant of CreateOp: the plan is written to the state before the error of
\* RequestCertificate is looked at.
CreateOpPersistsOnFailure(r, plan, store, ok, cert, chain, now) ==
    LET attr == IF ~IsNull(plan.Attributes) /\ ~IsUnknown(plan.Attributes)
                THEN ValueString(plan.Attributes) ELSE ""
        call == RequestCall(ValueString(plan.CSR), ValueString(plan.Template), attr)
        res == RequestCertificate(store, ok, cert, chain)
    IN  IF res.err
        THEN OpResult("Create", r, EmptyId, Nil, <<plan>>, TRUE, <<call>>, ok, res.store)
        ELSE LET certificates == res.certificates[1]
                 state == [plan EXCEPT
                             !.ID = StringValue(certificates.ID),
                             !.CertificateB64 = StringValue(certificates.CertificateB64),
                             !.CertificateChainB64 = StringValue(certificates.CertificateChainB64),
                             !.LastUpdated = StringValue(now)]
             IN  OpResult("Create", r, EmptyId, Nil, <<state>>, FALSE, <<call>>, ok, res.store)

\* Variant of CreateOp: the certificate and the chain are stored with the
\* escape sequence removed, as Read stores them.
CreateOpStripping(r, plan, store, ok, cert, chain, now) ==
    LET attr == IF ~IsNull(plan.Attributes) /\ ~IsUnknown(plan.Attributes)
                THEN ValueString(plan.Attributes) ELSE ""
        call == RequestCall(ValueString(plan.CSR), ValueString(plan.Template), attr)
        res == RequestCertificate(store, ok, cert, chain)
    IN  IF res.err
        THEN OpResult("Create", r, EmptyId, Nil, Nil, TRUE, <<call>>, ok, res.store)
        ELSE LET certificates == res.certificates[1]
                 state == [plan EXCEPT
                     !.ID = StringValue(certificates.ID),
                     !.CertificateB64 =
                         StringValue(StripCarriageReturn(certificates.CertificateB64)),
                     !.CertificateChainB64 =
                         StringValue(StripCarriageReturn(certificates.CertificateChainB64)),
                     !.LastUpdated = StringValue(now)]
             IN  OpResult("Create", r, EmptyId, Nil, <<state>>, FALSE, <<call>>, ok, res.store)

\* certificateResource.Create on a plan.  ok, cert, chain: the server's answer;
\* now: time.Now().  The response state starts out empty.
CreateOp(r, plan, store, ok, cert, chain, now) ==
    LET attr == IF ~IsNull(plan.Attributes) /\ ~IsUnknown(plan.Attributes)
                THEN ValueString(plan.Attributes) ELSE ""
        call == RequestCall(ValueString(plan.CSR), ValueString(plan.Template), attr)
        res == RequestCertificate(store, ok, cert, chain)
    IN  IF res.err
        THEN OpResult("Create", r, EmptyId, Nil, Nil, TRUE, <<call>>, ok, res.store)
        ELSE LET certificates == res.certificates[1]
                 state == [plan EXCEPT
                             !.ID = StringValue(certificates.ID),
                             !.CertificateB64 = StringValue(certificates.CertificateB64),
                             !.CertificateChainB64 = StringValue(certificates.CertificateChainB64),
                             !.LastUpdated = StringValue(now)]
             IN  OpResult("Create", r, EmptyId, Nil, <<state>>, FALSE, <<call>>, ok, res.store)

\* Variant of ReadOp: a failed RetrieveCertificates call is taken to mean the
\* certificate is gone, and the resource is removed from the state.
ReadOpRemovesOnFailure(r, state, store, netOk) ==
    LET reqID == ValueId(state.ID)
        res == RetrieveCertificates(store, reqID, netOk)
    IN  IF res.err
        THEN OpResult("Read", r, reqID, <<state>>, Nil, TRUE, <<RetrieveCall(reqID)>>,
                      netOk, store)
        ELSE LET certificates == res.certificates[1]
                 refreshed == [state EXCEPT
                     !.ID = StringValue(certificates.ID),
                     !.CertificateB64 =
                         StringValue(StripCarriageReturn(certificates.CertificateB64)),
                     !.CertificateChainB64 =
                         StringValue(StripCarriageReturn(certificates.CertificateChainB64))]
             IN  OpResult("Read", r, reqID, <<state>>, <<refreshed>>, FALSE,
                          <<RetrieveCall(reqID)>>, netOk, store)

\* Variant of ReadOp: the refreshed state is built as a fresh model from the
\* certificate and chain alone, as the data source builds its state, so the
\* id is left null.
ReadOpFreshModel(r, state, store, netOk) ==
    LET reqID == ValueId(state.ID)
        res == RetrieveCertificates(store, reqID, netOk)
    IN  IF res.err
        THEN OpResult("Read", r, reqID, <<state>>, <<state>>, TRUE, <<RetrieveCall(reqID)>>,
                      netOk, store)
        ELSE LET certificates == res.certificates[1]
                 refreshed == [state EXCEPT
                     !.ID = IdNull,
                     !.CertificateB64 =
                         StringValue(StripCarriageReturn(certificates.CertificateB64)),
                     !.CertificateChainB64 =
                         StringValue(StripCarriageReturn(certificates.CertificateChainB64))]
             IN  OpResult("Read", r, reqID, <<state>>, <<refreshed>>, FALSE,
                          <<RetrieveCall(reqID)>>, netOk, store)

\* certificateResource.Read on the current state.  The response state starts
\* out as the current state.
ReadOp(r, state, store, netOk) ==
    LET reqID == ValueId(state.ID)
        res == RetrieveCertificates(store, reqID, netOk)
    IN  IF res.err
        THEN OpResult("Read", r, reqID, <<state>>, <<state>>, TRUE, <<RetrieveCall(reqID)>>,
                      netOk, store)
        ELSE LET certificates == res.certificates[1]
                 refreshed == [state EXCEPT
                     !.ID = StringValue(certificates.ID),
                     !.CertificateB64 =
                         StringValue(StripCarriageReturn(certificates.CertificateB64)),
                     !.CertificateChainB64 =
                         StringValue(StripCarriageReturn(certificates.CertificateChainB64))]
             IN  OpResult("Read", r, reqID, <<state>>, <<refreshed>>, FALSE,
                          <<RetrieveCall(reqID)>>, netOk, store)

\* Variant of UpdateOp: the plan is written to the state, its computed
\* certificate attributes unknown.
UpdateOpWritesPlan(r, state, store) ==
    LET planned == [state EXCEPT !.CertificateB64 = [k |-> "unknown", v |-> <<>>],
                                 !.CertificateChainB64 = [k |-> "unknown", v |-> <<>>]]
    IN  OpResult("Update", r, ValueId(state.ID), <<state>>, <<planned>>, FALSE, <<>>, TRUE, store)

\* certificateResource.Update: an empty body.  The response state starts out
\* as the prior state and stays it.
UpdateOp(r, state, store) ==
    OpResult("Update", r, ValueId(state.ID), <<state>>, <<state>>, FALSE, <<>>, TRUE, store)

\* Variant of DeleteOp: the certificate is also removed on the server when it
\* is the last one issued.
DeleteOpRemovesRemote(r, state, store) ==
    LET id == ValueId(state.ID)
    IN  OpResult("Delete", r, id, <<state>>, Nil, FALSE, <<>>, TRUE,
                 IF id = Len(store) /\ id > 0 THEN SubSeq(store, 1, id - 1) ELSE store)

\* certificateResource.Delete: an empty body.  With no error in the response
\* the framework removes the resource from the state.
DeleteOp(r, state, store) ==
    OpResult("Delete", r, ValueId(state.ID), <<state>>, Nil, FALSE, <<>>, TRUE, store)

\* Variant of ImportStateOp: the import identifier is written to another
\* attribute than id.
ImportStateOpWrongAttribute(r, id, store) ==
    LET state == [ID |-> IdNull, Attributes |-> StringNull, CSR |-> StringNull,
                  Template |-> StringNull, CertificateB64 |-> TextNull,
                  CertificateChainB64 |-> TextNull, LastUpdated |-> StringValue(id)]
    IN  OpResult("ImportState", r, id, Nil, <<state>>, FALSE, <<>>, TRUE, store)

\* certificateResource.ImportState: resource.ImportStatePassthroughID sets the
\* id attribute of an otherwise null state to the import identifier.
ImportStateOp(r, id, store) ==
    LET state == [ID |-> StringValue(id), Attributes |-> StringNull, CSR |-> StringNull,
                  Template |-> StringNull, CertificateB64 |-> TextNull,
                  CertificateChainB64 |-> TextNull, LastUpdated |-> TimeNull]
    IN  OpResult("ImportState", r, id, Nil, <<state>>, FALSE, <<>>, TRUE, store)

\* Variant of DataSourceReadOp: a failed RetrieveCertificates call is tried
\* once more before the error is reported.
DataSourceReadOpRetrying(id, store, netOk) ==
    LET reqID == id
        res == RetrieveCertificates(store, reqID, netOk)
    IN  IF res.err
        THEN OpResult("DataSourceRead", "data", reqID, Nil, Nil, TRUE,
                      <<RetrieveCall(reqID), RetrieveCall(reqID)>>, netOk, store)
        ELSE LET certificates == res.certificates[1]
                 state == [ID |-> StringValue(certificates.ID),
                           CertificateB64 |-> StringValue(certificates.CertificateB64),
                           CertificateChainB64 |-> StringValue(certificates.CertificateChainB64)]
             IN  OpResult("DataSourceRead", "data", reqID, Nil, <<state>>, FALSE,
                          <<RetrieveCall(reqID)>>, netOk, store)

\* certificateDataSource.Read on the configured id.
DataSourceReadOp(id, store, netOk) ==
    LET reqID == id
        res == RetrieveCertificates(store, reqID, netOk)
    IN  IF res.err
        THEN OpResult("DataSourceRead", "data", reqID, Nil, Nil, TRUE, <<RetrieveCall(reqID)>>,
                      netOk, store)
        ELSE LET certificates == res.certificates[1]
                 state == [ID |-> StringValue(certificates.ID),
                           CertificateB64 |-> StringValue(certificates.CertificateB64),
                           CertificateChainB64 |-> StringValue(certificates.CertificateChainB64)]
             IN  OpResult("DataSourceRead", "data", reqID, Nil, <<state>>, FALSE,
                          <<RetrieveCall(reqID)>>, netOk, store)

\* terraform import runs ImportState and then Read as one command: nothing
\* else happens in between, and a failed Read aborts the import.
ImportPending == lastOp.op = "ImportState"

\* The resource instances the lifecycle specification drives.
Managed == {"r1"}

Create(r) ==
    /\ ~ImportPending
    /\ rClient[r] # Nil
    /\ resState[r] = Nil
    /\ Len(remote) < MaxCerts
    /\ \E plan \in Plans, ok \in BOOLEAN, cert \in IssuedTexts, chain \in IssuedTexts,
          now \in 1..MaxTime :
          LET res == CreateOp(r, plan, remote, ok, cert, chain, now)
          IN  /\ lastOp' = res
              /\ remote' = res.store
              /\ resState' = [resState EXCEPT ![r] = res.respState]
    /\ UNCHANGED <<dsState, deleted>>
    /\ UNCHANGED <<provVars, inflight>>

Read(r) ==
    /\ ImportPending => lastOp.r = r
    /\ rClient[r] # Nil
    /\ resState[r] # Nil
    /\ \E netOk \in BOOLEAN :
          LET res == ReadOp(r, resState[r][1], remote, netOk)
          IN  /\ lastOp' = res
              /\ remote' = res.store
              /\ resState' = [resState EXCEPT ![r] =
                                IF ImportPending /\ res.err THEN Nil ELSE res.respState]
    /\ UNCHANGED <<dsState, deleted>>
    /\ UNCHANGED <<provVars, inflight>>

Update(r) ==
    /\ ~ImportPending
    /\ rClient[r] # Nil
    /\ resState[r] # Nil
    /\ LET res == UpdateOp(r, resState[r][1], remote)
       IN  /\ lastOp' = res
           /\ remote' = res.store
           /\ resState' = [resState EXCEPT ![r] = res.respState]
    /\ UNCHANGED <<dsState, deleted>>
    /\ UNCHANGED <<provVars, inflight>>

Delete(r) ==
    /\ ~ImportPending
    /\ rClient[r] # Nil
    /\ resState[r] # Nil
    /\ LET res == DeleteOp(r, resState[r][1], remote)
       IN  /\ lastOp' = res
           /\ remote' = res.store
           /\ resState' = [resState EXCEPT ![r] = res.respState]
           /\ deleted' = deleted \cup {res.id}
    /\ UNCHANGED dsState
    /\ UNCHANGED <<provVars, inflight>>

ImportState(r) ==
    /\ ~ImportPending
    /\ rClient[r] # Nil
    /\ resState[r] = Nil
    /\ \E id \in 0..MaxCerts :
          LET res == ImportStateOp(r, id, remote)
          IN  /\ lastOp' = res
              /\ remote' = res.store
              /\ resState' = [resState EXCEPT ![r] = res.respState]
    /\ UNCHANGED <<dsState, deleted>>
    /\ UNCHANGED <<provVars, inflight>>

DataSourceRead ==
    /\ ~ImportPending
    /\ dClient # Nil
    /\ \E id \in 0..MaxCerts, netOk \in BOOLEAN :
          LET res == DataSourceReadOp(id, remote, netOk)
          IN  /\ lastOp' = res
              /\ remote' = res.store
              /\ dsState' = res.respState
    /\ UNCHANGED <<resState, deleted>>
    /\ UNCHANGED <<provVars, inflight>>

\* The configuration of the acceptance tests: the provider block sets use_ntlm
\* alone, and host, username and password come from the environment.
ConfiguredRequest ==
    [config |-> [Host |-> StringNull, Username |-> StringNull,
                 Password |-> StringNull, Krb5Conf |-> StringNull, Ntlm |-> BoolValue(TRUE)],
     env |-> [ADCS_HOST |-> "a", ADCS_USERNAME |-> "a", ADCS_PASSWORD |-> "a",
              ADCS_KRB5CONF |-> ""],
     decodeOk |-> TRUE, newClientOk |-> TRUE]

\* The lifecycle starts after a successful configuration pass, every resource
\* and the data source holding the one client handle; nothing issued, no
\* state yet.

Init ==
    LET req == ConfiguredRequest
        resp == Configure(req.config, req.env, req.decodeOk, req.newClientOk)
    IN  /\ provReq = <<req>>
        /\ provResp = [Diagnostics |-> resp.Diagnostics,
                       DataSourceData |-> resp.DataSourceData,
                       ResourceData |-> resp.ResourceData]
        /\ newClientCalls = resp.newClient
        /\ rClient = [r \in Resources |-> resp.ResourceData]
        /\ dClient = resp.DataSourceData
        /\ remote = <<>>
        /\ resState = [r \in Resources |-> Nil]
        /\ dsState = Nil
        /\ lastOp = NoLastOp
        /\ deleted = {}
        /\ inflight = [r \in Resources |-> Nil]

Next ==
    \/ \E r \in Managed : Create(r)
    \/ \E r \in Managed : Read(r)
    \/ \E r \in Managed : Update(r)
    \/ \E r \in Managed : Delete(r)
    \/ \E r \in Managed : ImportState(r)
    \/ DataSourceRead

Spec == Init /\ [][Next]_vars

\* The refresh specification: the server has issued one certificate, with any
\* text as the certificate or as the chain, Create has stored it for r1, and
\* the resource and the data source read it.
RefreshPlan ==
    [ID |-> [k |-> "unknown", v |-> EmptyId], Attributes |-> StringNull,
     CSR |-> StringValue("csrA"), Template |-> StringValue("User"),
     CertificateB64 |-> [k |-> "unknown", v |-> <<>>],
     CertificateChainB64 |-> [k |-> "unknown", v |-> <<>>],
     LastUpdated |-> [k |-> "unknown", v |-> 0]]

RefreshTexts == (AllTexts \X IssuedTexts) \cup (IssuedTexts \X AllTexts)

InitRefresh ==
    LET req == ConfiguredRequest
        resp == Configure(req.config, req.env, req.decodeOk, req.newClientOk)
    IN  /\ provReq = <<req>>
        /\ provResp = [Diagnostics |-> resp.Diagnostics,
                       DataSourceData |-> resp.DataSourceData,
                       ResourceData |-> resp.ResourceData]
        /\ newClientCalls = resp.newClient
        /\ rClient = [r \in Resources |-> resp.ResourceData]
        /\ dClient = resp.DataSourceData
        /\ \E texts \in RefreshTexts :
              LET res == CreateOp("r1", RefreshPlan, <<>>, TRUE, texts[1], texts[2], 1)
              IN  /\ remote = res.store
                  /\ resState = [r \in Resources |-> IF r = "r1" THEN res.respState ELSE Nil]
                  /\ lastOp = res
        /\ dsState = Nil
        /\ deleted = {}
        /\ inflight = [r \in Resources |-> Nil]

NextRefresh ==
    \/ \E r \in Managed : Read(r)
    \/ DataSourceRead

SpecRefresh == InitRefresh /\ [][NextRefresh]_vars

----------------------------------------------------------------------------
(* Concurrent operations.  Within one run Terraform invokes operations on  *)
(* different resource instances at the same time, and one at a time on any *)
(* one instance.  An operation is taken in three steps: it is invoked with *)
(* the instance's current state, it runs (its remote call, if it makes     *)
(* one, reaches the server then), and its response is stored.              *)

ConcurrentOps == {"Create", "Read", "Update", "Delete"}

\* The operation in flight: the request and, once it has run, the result.
Invocation(op, reqState, plan) ==
    [op |-> op, reqState |-> reqState, plan |-> plan, res |-> Nil]

\* Variant of SetResponseState: the handler's model is kept where every
\* instance shares it, so the response lands in every state there is.
SetResponseStateShared(states, r, respState) ==
    [q \in DOMAIN states |-> IF q = r \/ states[q] # Nil THEN respState ELSE states[q]]

\* resp.State.Set: the response state of the request of instance r.
SetResponseState(states, r, respState) == [states EXCEPT ![r] = respState]

\* The framework hands the provider's client to the resource (Configure) and
\* passes the request: the instance's state, and the plan of a Create.
Invoke(r) ==
    /\ inflight[r] = Nil
    /\ \E op \in ConcurrentOps, plan \in {RefreshPlan} :
          /\ op = "Create" => resState[r] = Nil
          /\ op # "Create" => resState[r] # Nil
          /\ inflight' = [inflight EXCEPT ![r] =
                            <<Invocation(op, resState[r],
                                         IF op = "Create" THEN <<plan>> ELSE Nil)>>]
    /\ rClient' = [rClient EXCEPT ![r] =
                     ResourceConfigureClient(rClient[r], provResp.ResourceData)]
    /\ UNCHANGED <<provReq, provResp, newClientCalls, dClient>>
    /\ UNCHANGED <<remote, resState, dsState, lastOp, deleted>>

\* The handler runs on its request; a remote call is answered by the server
\* as it is at that moment.
Run(r) ==
    /\ inflight[r] # Nil
    /\ inflight[r][1].res = Nil
    /\ rClient[r] # Nil
    /\ LET inv == inflight[r][1]
       IN  /\ inv.op = "Create" => Len(remote) < MaxCerts
           /\ \E ok \in BOOLEAN, cert \in IssuedTexts :
                 LET res == CASE inv.op = "Create" ->
                                   CreateOp(r, inv.plan[1], remote, ok, cert, <<"M">>, 1)
                              [] inv.op = "Read" -> ReadOp(r, inv.reqState[1], remote, ok)
                              [] inv.op = "Update" -> UpdateOp(r, inv.reqState[1], remote)
                              [] inv.op = "Delete" -> DeleteOp(r, inv.reqState[1], remote)
                 IN  /\ remote' = res.store
                     /\ inflight' = [inflight EXCEPT ![r] = <<[inv EXCEPT !.res = <<res>>]>>]
    /\ UNCHANGED provVars
    /\ UNCHANGED <<resState, dsState, lastOp, deleted>>

\* Terraform stores the response state of the operation.
Respond(r) ==
    /\ inflight[r] # Nil
    /\ inflight[r][1].res # Nil
    /\ LET res == inflight[r][1].res[1]
       IN  /\ resState' = SetResponseState(resState, r, res.respState)
           /\ lastOp' = res
           /\ deleted' = IF res.op = "Delete" THEN deleted \cup {res.id} ELSE deleted
    /\ inflight' = [inflight EXCEPT ![r] = Nil]
    /\ UNCHANGED provVars
    /\ UNCHANGED <<remote, dsState>>

NextConcurrent ==
    \/ \E r \in Resources : Invoke(r)
    \/ \E r \in Resources : Run(r)
    \/ \E r \in Resources : Respond(r)

SpecConcurrent == Init /\ [][NextConcurrent]_vars

----------------------------------------------------------------------------
(* Claims about the provider configuration pass (under SpecProvider)       *)

RequiredFields == {"host", "username", "password"}

\* The configuration value and the environment variable of a field, as the
\* practitioner gave them.
GivenConfig(req, f) ==
    CASE f = "host" -> req.config.Host
      [] f = "username" -> req.config.Username
      [] f = "password" -> req.config.Password
      [] f = "krb5conf" -> req.config.Krb5Conf

GivenEnv(req, f) ==
    CASE f = "host" -> req.env.ADCS_HOST
      [] f = "username" -> req.env.ADCS_USERNAME
      [] f = "password" -> req.env.ADCS_PASSWORD
      [] f = "krb5conf" -> req.env.ADCS_KRB5CONF

PassedToClient(clientConfig, f) ==
    CASE f = "host" -> clientConfig.Host
      [] f = "username" -> clientConfig.Username
      [] f = "password" -> clientConfig.Password
      [] f = "krb5conf" -> clientConfig.Krb5Conf

\* A field is empty after the fallback: not configured and no (or an empty)
\* environment variable, or configured as the empty string.
EmptyAfterFallback(req, f) ==
    \/ GivenConfig(req, f) = StringNull /\ GivenEnv(req, f) = ""
    \/ GivenConfig(req, f) = StringValue("")

\* The pass got as far as the fallback: the configuration decoded and none of
\* host, username, password is unknown.
ReachedFallback(req) ==
    /\ req.decodeOk
    /\ \A f \in RequiredFields : GivenConfig(req, f) # StringUnknown

ErrorsFor(diags, f) ==
    {i \in 1..Len(diags) : diags[i].severity = "error" /\ diags[i].attr = f}

NoHandle ==
    /\ provResp.DataSourceData = Nil
    /\ provResp.ResourceData = Nil
    /\ dClient = Nil
    /\ \A r \in Resources : rClient[r] = Nil

C2_NoClientWithoutValidConfig ==
    /\ provReq = <<>> => newClientCalls = <<>> /\ NoHandle
    /\ provReq # <<>> =>
        LET req == provReq[1]
            unknown == \E f \in RequiredFields : GivenConfig(req, f) = StringUnknown
            empty == \E f \in RequiredFields : EmptyAfterFallback(req, f)
        IN  /\ unknown \/ empty => newClientCalls = <<>> /\ NoHandle
            /\ ~req.newClientOk => NoHandle
            /\ \A h \in {provResp.DataSourceData, provResp.ResourceData, dClient}
                         \cup {rClient[r] : r \in Resources} :
                  h # Nil => /\ req.newClientOk
                             /\ Len(newClientCalls) = 1
                             /\ h = <<[config |-> newClientCalls[1]]>>

\* Witness of C2: the password is empty after the fallback, host and username
\* are fine, and the resource and data source Configure callbacks have run
\* without receiving a handle.
C2_Witness ==
    /\ provReq # <<>>
    /\ ReachedFallback(provReq[1])
    /\ EmptyAfterFallback(provReq[1], "password")
    /\ ~EmptyAfterFallback(provReq[1], "host")
    /\ ~EmptyAfterFallback(provReq[1], "username")
    /\ provReq[1].newClientOk
    /\ HasError(provResp.Diagnostics)
    /\ newClientCalls = <<>>
    /\ NoHandle

\* C3 (as stated): for each of host, username, password, krb5conf, the value
\* passed to the client is the configured value when one is supplied (the
\* attribute is not null), whatever the environment holds, and the
\* environment variable when none is supplied.
C3_ExplicitOverridesEnv ==
    \A i \in 1..Len(newClientCalls) :
        \A f \in RequiredFields \cup {"krb5conf"} :
            LET given == GivenConfig(provReq[1], f)
                passed == PassedToClient(newClientCalls[i], f)
            IN  IF given = StringNull
                THEN passed = GivenEnv(provReq[1], f)
                ELSE given.k = "known" /\ passed = given.v

----------------------------------------------------------------------------
(* Claims about the lifecycle (under Spec)                                 *)

\* C4: the id of a resource never changes while the resource stays in the
\* state: Create stores the id the server returned, and every later step
\* (Read, Update, and anything else) leaves it as it is; a Read or Update of
\* a created resource also keeps the resource in the state.
C4_IdImmutable ==
    [][/\ \A r \in Resources :
            resState[r] # Nil /\ resState'[r] # Nil =>
                resState'[r][1].ID = resState[r][1].ID
       /\ lastOp'.op = "Create" /\ ~lastOp'.err =>
            /\ Len(remote') = Len(remote) + 1
            /\ resState'[lastOp'.r] # Nil
            /\ resState'[lastOp'.r][1].ID = StringValue(Len(remote'))
       /\ lastOp'.op \in {"Read", "Update"} /\ ~ImportPending =>
            /\ resState'[lastOp'.r] # Nil
            /\ resState'[lastOp'.r][1].ID = lastOp'.reqState[1].ID]_vars

\* Witness of C4: a created resource (last_updated is set) has just been
\* refreshed by a successful Read and still holds the id of its certificate.
C4_Witness ==
    /\ lastOp.op = "Read"
    /\ ~lastOp.err
    /\ resState["r1"] # Nil
    /\ resState["r1"][1].LastUpdated.k = "known"
    /\ resState["r1"][1].ID = StringValue(2)
    /\ resState["r1"][1].ID = lastOp.reqState[1].ID

\* C5: Update makes no remote call, reports no error, and changes neither the
\* state of any resource (id, certificate_b64, certificate_chain_b64,
\* last_updated, csr, template, attributes) nor the data source's state nor
\* the server's certificates.
C5_UpdateNoOp ==
    [][lastOp'.op = "Update" =>
        /\ lastOp'.calls = <<>>
        /\ ~lastOp'.err
        /\ lastOp'.reqState = resState[lastOp'.r]
        /\ lastOp'.respState = lastOp'.reqState
        /\ resState' = resState
        /\ dsState' = dsState
        /\ remote' = remote]_vars

\* Witness of C5: an Update has run on a resource whose certificate fields
\* are set.
C5_Witness ==
    /\ lastOp.op = "Update"
    /\ resState["r1"] # Nil
    /\ resState["r1"][1].CertificateB64 = StringValue(<<"M", "\\", "r">>)
    /\ resState["r1"][1].LastUpdated.k = "known"

\* C6: Delete makes no remote call and only drops the resource from the
\* state; no step ever removes or changes a certificate of the server; and a
\* data source Read of the id of a deleted resource, when the server answers
\* the call, succeeds and returns the certificate the server holds under it.
C6_DeleteKeepsRemote ==
    [][/\ \A i \in 1..Len(remote) : i <= Len(remote') /\ remote'[i] = remote[i]
       /\ lastOp'.op = "Delete" =>
            /\ lastOp'.calls = <<>>
            /\ remote' = remote
            /\ resState' = [resState EXCEPT ![lastOp'.r] = Nil]
            /\ lastOp'.id \in 1..Len(remote')
       /\ deleted' \subseteq 1..Len(remote')
       /\ lastOp'.op = "DataSourceRead" /\ lastOp'.id \in deleted' /\ lastOp'.answered =>
            /\ ~lastOp'.err
            /\ dsState' # Nil
            /\ dsState'[1] = [ID |-> StringValue(lastOp'.id),
                              CertificateB64 |-> StringValue(remote[lastOp'.id].CertificateB64),
                              CertificateChainB64 |->
                                  StringValue(remote[lastOp'.id].CertificateChainB64)]]_vars

\* Witness of C6: the resource is gone from the state and a data source Read
\* of its id has succeeded.
C6_Witness ==
    /\ lastOp.op = "DataSourceRead"
    /\ lastOp.id \in deleted
    /\ ~lastOp.err
    /\ \A r \in Resources : resState[r] = Nil
    /\ dsState # Nil

\* C7: a Create whose RequestCertificate call fails ends with an error, leaves
\* the resource absent from the state, and has made that one call only.
C7_CreateFailurePersistsNothing ==
    lastOp.op = "Create" /\ ~lastOp.answered =>
        /\ lastOp.err
        /\ lastOp.respState = Nil
        /\ resState[lastOp.r] = Nil
        /\ Len(lastOp.calls) = 1
        /\ lastOp.calls[1].fn = "RequestCertificate"
        /\ remote = lastOp.store

\* Witness of C7: a Create has failed after another certificate was issued.
C7_Witness ==
    /\ lastOp.op = "Create"
    /\ lastOp.err
    /\ ~lastOp.answered
    /\ Len(remote) = 1
    /\ resState["r1"] = Nil

\* C8: a successful Create stores the id, certificate and chain as the server
\* returned them (the certificate it keeps under the new id), with the plan's
\* inputs and a time stamp; and a data source Read of that id right after it,
\* when the server answers, yields the same id, certificate and chain.
C8_CreateThenDataSourceRead ==
    [][/\ lastOp'.op = "Create" /\ ~lastOp'.err =>
            LET id == Len(remote')
                st == resState'[lastOp'.r][1]
            IN  /\ lastOp'.answered
                /\ id = Len(remote) + 1
                /\ st.ID = StringValue(id)
                /\ st.CertificateB64 = StringValue(remote'[id].CertificateB64)
                /\ st.CertificateChainB64 = StringValue(remote'[id].CertificateChainB64)
                /\ st.LastUpdated.k = "known"
                /\ <<st.CSR.v, st.Template.v>> = <<lastOp'.calls[1].csr, lastOp'.calls[1].template>>
       /\ /\ lastOp.op = "Create" /\ ~lastOp.err
          /\ lastOp'.op = "DataSourceRead" /\ lastOp'.answered
          /\ StringValue(lastOp'.id) = resState[lastOp.r][1].ID
          => /\ ~lastOp'.err
             /\ dsState' # Nil
             /\ dsState'[1].ID = resState[lastOp.r][1].ID
             /\ dsState'[1].CertificateB64 = resState[lastOp.r][1].CertificateB64
             /\ dsState'[1].CertificateChainB64 = resState[lastOp.r][1].CertificateChainB64]_vars

\* Witness of C8: the data source holds the same id, certificate and chain as
\* a resource that Create stored with the escape sequence in its certificate.
C8_Witness ==
    /\ lastOp.op = "DataSourceRead"
    /\ ~lastOp.err
    /\ resState["r1"] # Nil
    /\ dsState # Nil
    /\ dsState[1].ID = resState["r1"][1].ID
    /\ dsState[1].CertificateB64 = resState["r1"][1].CertificateB64
    /\ dsState[1].CertificateChainB64 = resState["r1"][1].CertificateChainB64
    /\ resState["r1"][1].CertificateB64 = StringValue(<<"M", "\\", "r">>)

\* The states Create can have stored for the certificate the server keeps
\* under id.
CreatedStates(r, store, id) ==
    {CreateOp(r, plan, SubSeq(store, 1, id - 1), TRUE, store[id].CertificateB64,
              store[id].CertificateChainB64, now).respState[1] :
        plan \in Plans, now \in 1..MaxTime}

IdCertificateChain(st) == <<st.ID, st.CertificateB64, st.CertificateChainB64>>

\* C9: ImportState makes no remote call and sets the id of an otherwise empty
\* state to the identifier supplied; the next step is the Read of that
\* resource; when it succeeds the state holds that id and the certificate and
\* chain of the server's certificate with that id, which are the id,
\* certificate and chain a Read after a Create that returned this id gives.
C9_ImportThenRead ==
    [][/\ lastOp'.op = "ImportState" =>
            /\ lastOp'.calls = <<>>
            /\ resState'[lastOp'.r] # Nil
            /\ resState'[lastOp'.r][1].ID = StringValue(lastOp'.id)
            /\ resState'[lastOp'.r][1].CertificateB64 = TextNull
            /\ resState'[lastOp'.r][1].CertificateChainB64 = TextNull
       /\ lastOp.op = "ImportState" =>
            /\ lastOp'.op = "Read" /\ lastOp'.r = lastOp.r
            /\ lastOp'.calls = <<RetrieveCall(lastOp.id)>>
            /\ ~lastOp'.err =>
                 LET id == lastOp.id
                     st == resState'[lastOp.r][1]
                 IN  /\ id \in 1..Len(remote)
                     /\ st.ID = StringValue(id)
                     /\ \A created \in CreatedStates(lastOp.r, remote, id) :
                           \E netOk \in BOOLEAN :
                              LET res == ReadOp(lastOp.r, created, remote, netOk)
                              IN  /\ ~res.err
                                  /\ IdCertificateChain(res.respState[1]) = IdCertificateChain(st)]_vars

\* Witness of C9: an imported resource (no inputs, no last_updated) holds the
\* id supplied and a certificate after its Read.
C9_Witness ==
    /\ lastOp.op = "Read"
    /\ ~lastOp.err
    /\ resState["r1"] # Nil
    /\ resState["r1"][1].LastUpdated = TimeNull
    /\ resState["r1"][1].CSR = StringNull
    /\ resState["r1"][1].ID = StringValue(2)
    /\ resState["r1"][1].CertificateB64.k = "known"

----------------------------------------------------------------------------
(* Claims about the two Read paths (under SpecRefresh)                     *)

\* The escape sequence, backslash then r, starts at position i of s.
EscapeAt(s, i) == i >= 1 /\ i < Len(s) /\ s[i] = "\\" /\ s[i + 1] = "r"

HasEscape(s) == \E i \in 1..Len(s) : EscapeAt(s, i)

\* s without the characters of any occurrence of the escape sequence.
WithoutEscapes(s) ==
    LET kept == SelectSeq([i \in 1..Len(s) |-> i],
                          LAMBDA i : ~EscapeAt(s, i) /\ ~EscapeAt(s, i - 1))
    IN  [j \in 1..Len(kept) |-> s[kept[j]]]

\* C10: a successful resource Read stores the server's certificate and chain
\* with every occurrence of the escape sequence taken out; a successful data
\* source Read stores both as the server holds them; and for the same
\* certificate the two agree on a text exactly when it has no occurrence.
C10_ReadPathsDiffer ==
    /\ lastOp.op = "Read" /\ ~lastOp.err =>
        LET st == resState[lastOp.r][1]
            held == remote[lastOp.id]
        IN  /\ st.CertificateB64 = StringValue(WithoutEscapes(held.CertificateB64))
            /\ st.CertificateChainB64 = StringValue(WithoutEscapes(held.CertificateChainB64))
    /\ dsState # Nil =>
        LET held == remote[dsState[1].ID.v]
        IN  /\ dsState[1].CertificateB64 = StringValue(held.CertificateB64)
            /\ dsState[1].CertificateChainB64 = StringValue(held.CertificateChainB64)
    /\ lastOp.op = "Read" /\ ~lastOp.err /\ dsState # Nil
       /\ dsState[1].ID = resState[lastOp.r][1].ID =>
        LET st == resState[lastOp.r][1]
            held == remote[lastOp.id]
        IN  /\ (st.CertificateB64 = dsState[1].CertificateB64)
                  <=> ~HasEscape(held.CertificateB64)
            /\ (st.CertificateChainB64 = dsState[1].CertificateChainB64)
                  <=> ~HasEscape(held.CertificateChainB64)

\* Witness of C10: the server's certificate holds the escape sequence twice,
\* both Reads have succeeded on it, and their certificates differ.
C10_Witness ==
    /\ lastOp.op = "Read"
    /\ ~lastOp.err
    /\ dsState # Nil
    /\ dsState[1].ID = resState["r1"][1].ID
    /\ remote[1].CertificateB64 = <<"\\", "r", "\\", "r">>
    /\ resState["r1"][1].CertificateB64 = StringValue(<<>>)
    /\ dsState[1].CertificateB64 # resState["r1"][1].CertificateB64

----------------------------------------------------------------------------
(* Claims about remote calls and failed reads (under Spec)                 *)

\* The server does not answer the call with a certificate: the call failed on
\* the way, or it holds no certificate under the id.
RetrieveFails(op) == ~op.answered \/ op.id \notin 1..Len(op.store)

\* C11: every Create has made exactly one RequestCertificate call, with the
\* plan's inputs; every resource Read and every data source Read has made
\* exactly one RetrieveCertificates call, with the id it was given; the
\* operation reports an error exactly when that call failed, whatever earlier
\* operations got; and a read that succeeds holds what the server holds now.
C11_OneCallNoRetryNoCache ==
    /\ lastOp.op = "Create" =>
        /\ Len(lastOp.calls) = 1
        /\ lastOp.calls[1].fn = "RequestCertificate"
        /\ lastOp.err <=> ~lastOp.answered
        /\ ~lastOp.err =>
             /\ lastOp.calls[1].csr = ValueString(lastOp.respState[1].CSR)
             /\ lastOp.calls[1].template = ValueString(lastOp.respState[1].Template)
             /\ lastOp.calls[1].attr = ValueString(lastOp.respState[1].Attributes)
    /\ lastOp.op = "Read" =>
        /\ lastOp.calls = <<RetrieveCall(ValueId(lastOp.reqState[1].ID))>>
        /\ lastOp.id = ValueId(lastOp.reqState[1].ID)
        /\ lastOp.err <=> RetrieveFails(lastOp)
    /\ lastOp.op = "DataSourceRead" =>
        /\ lastOp.calls = <<RetrieveCall(lastOp.id)>>
        /\ lastOp.err <=> RetrieveFails(lastOp)
        /\ lastOp.err => dsState = Nil
        /\ ~lastOp.err =>
             dsState = <<[ID |-> StringValue(lastOp.id),
                          CertificateB64 |-> StringValue(remote[lastOp.id].CertificateB64),
                          CertificateChainB64 |->
                              StringValue(remote[lastOp.id].CertificateChainB64)]>>
    /\ lastOp.op \in {"Update", "Delete", "ImportState"} => lastOp.calls = <<>>

\* Witness of C11: a data source Read of a certificate the server holds has
\* failed on the way, after its one call.
C11_Witness ==
    /\ lastOp.op = "DataSourceRead"
    /\ lastOp.err
    /\ lastOp.id \in 1..Len(remote)
    /\ Len(lastOp.calls) = 1

\* C13: a resource Read whose RetrieveCertificates call fails reports an error
\* and answers with the state it was given; the state of a resource that was
\* in the state before (created, or imported and read) stays as it was, field
\* by field, and so do the server and the data source.  (The Read that
\* terraform import runs on a state not stored yet also answers with the
\* state it was given; the import is then given up.)
C13_FailedReadKeepsState ==
    [][lastOp'.op = "Read" /\ RetrieveFails(lastOp') =>
        /\ lastOp'.err
        /\ Len(lastOp'.calls) = 1
        /\ lastOp'.reqState = resState[lastOp'.r]
        /\ lastOp'.respState = lastOp'.reqState
        /\ ~ImportPending => resState' = resState /\ resState'[lastOp'.r] # Nil
        /\ \A r \in Resources \ {lastOp'.r} : resState'[r] = resState[r]
        /\ remote' = remote
        /\ dsState' = dsState]_vars

\* Witness of C13: a Read has failed on a created resource, which still holds
\* last_updated and the certificate as Create stored it.
C13_Witness ==
    /\ lastOp.op = "Read"
    /\ lastOp.err
    /\ resState["r1"] # Nil
    /\ resState["r1"][1].LastUpdated = StringValue(2)
    /\ resState["r1"][1].CertificateB64 = StringValue(<<"M", "\\", "r">>)
    /\ resState["r1"][1].CSR = StringValue("csrB")

----------------------------------------------------------------------------
(* Claims about concurrent operations (under SpecConcurrent)               *)

\* C12: with operations on two resource instances interleaved in any order,
\* a step changes the state of an instance only by storing the response of
\* the operation in flight on that instance, and then of no other instance;
\* what an operation answers is decided by its own request (a Read keeps the
\* id it was given, an Update the whole state); and the client handle of
\* every instance stays the one the provider configuration built, with the
\* configuration NewClient was given.
C12_ConcurrentIsolation ==
    [][/\ provReq' = provReq
       /\ provResp' = provResp
       /\ newClientCalls' = newClientCalls
       /\ rClient' = rClient
       /\ dClient' = dClient
       /\ \A r \in Resources : rClient'[r] = <<[config |-> newClientCalls[1]]>>
       /\ \A r \in Resources :
            resState'[r] # resState[r] =>
                /\ inflight[r] # Nil
                /\ inflight[r][1].res # Nil
                /\ inflight'[r] = Nil
                /\ resState'[r] = inflight[r][1].res[1].respState
                /\ \A q \in Resources \ {r} :
                      resState'[q] = resState[q] /\ inflight'[q] = inflight[q]
       /\ \A r \in Resources :
            inflight'[r] # Nil /\ inflight'[r][1].res # Nil =>
                LET inv == inflight'[r][1]
                    res == inv.res[1]
                IN  /\ res.op = inv.op /\ res.r = r
                    /\ inv.op # "Create" => res.reqState = inv.reqState
                    /\ inv.op = "Update" => res.respState = inv.reqState
                    /\ inv.op = "Delete" => res.respState = Nil
                    /\ inv.op = "Read" =>
                         /\ res.respState # Nil
                         /\ res.respState[1].ID = inv.reqState[1].ID
                         /\ res.respState[1].LastUpdated = inv.reqState[1].LastUpdated]_vars

\* Witness of C12: a Read of r1 and a Create of r2 have both run and neither
\* response is stored yet; r1 holds a certificate of its own.
C12_Witness ==
    /\ inflight["r1"] # Nil
    /\ inflight["r2"] # Nil
    /\ inflight["r1"][1].op = "Read"
    /\ inflight["r1"][1].res # Nil
    /\ ~inflight["r1"][1].res[1].err
    /\ inflight["r2"][1].op = "Create"
    /\ inflight["r2"][1].res # Nil
    /\ ~inflight["r2"][1].res[1].err
    /\ resState["r1"] # Nil
    /\ resState["r2"] = Nil

====
